---- MODULE Spec2Model ----
(***************************************************************************)
(* Model of the Airthings accessory (src/src/plugin.ts): the sample cache  *)
(* guarded by a mutex (getLatestSamples) and the characteristic getters    *)
(* that derive values from the cached snapshot.                            *)
(*                                                                         *)
(* A snapshot (latestSamples.data) is a function from the set of fields    *)
(* that are present to their numeric values; a field that is null or       *)
(* undefined in the JavaScript object is outside the function's domain.    *)
(* Date.now() is the variable now, in milliseconds.                        *)
(***************************************************************************)
EXTENDS Integers, Sequences, FiniteSets, TLC

\* ------------------------------------------------------------------------
\* Bounds of the model
\* ------------------------------------------------------------------------

\* Number of concurrent getter invocations of the general specification.
NumCallers == 2

\* Getter invocations the host makes in the general specification.
MaxCalls == 3

\* Number of TTL windows the clock may run through.
Horizon == 1

\* Date.now() at construction, in milliseconds.
StartNow == 1000000

\* Number of simultaneous callers of the burst scenario.
BurstSize == 5

\* ------------------------------------------------------------------------
\* Program constants
\* ------------------------------------------------------------------------

\* 300 * 1000: the age in milliseconds beyond which the cache is refreshed.
TTL_MS == 300 * 1000

\* 2 * 60 * 60: the freshness window of a reading, in seconds.
ACTIVE_WINDOW_S == 2 * 60 * 60

\* Characteristic.AirQuality values of the host framework.
UNKNOWN == 0
EXCELLENT == 1
FAIR == 3
POOR == 5

\* Characteristic.StatusLowBattery values.
BATTERY_LEVEL_NORMAL == 0
BATTERY_LEVEL_LOW == 1

\* Characteristic.CarbonDioxideDetected values.
CO2_LEVELS_NORMAL == 0
CO2_LEVELS_ABNORMAL == 1

\* config.serialNumber == null
Null == "<null>"

\* The placeholder the constructor stores when no serial number is configured.
Placeholder == "0000000000"

\* A configured serial number.
DeviceSerial == "2960000000"

\* ------------------------------------------------------------------------
\* Snapshots
\* ------------------------------------------------------------------------

Fields ==
  {"battery", "humidity", "co2", "pm25", "mold", "radonShortTermAvg", "voc",
   "temp", "pressure", "time"}

\* latestSamples = { data: {} }
EmptySample == [f \in {} |-> 0]

\* x != null / x != undefined
Has(s, f) == f \in DOMAIN s

Max(a, b) == IF a >= b THEN a ELSE b

\* The snapshot s with the fields of t added or overwritten.
Overlay(s, t) ==
  [f \in (DOMAIN s) \cup (DOMAIN t) |-> IF f \in DOMAIN t THEN t[f] ELSE s[f]]

\* ------------------------------------------------------------------------
\* Values a getter returns
\* ------------------------------------------------------------------------

\* A number is n; a floating-point result is kept exact as (n / d) * (p / q).
Num(n) == [tag |-> "num", n |-> n, d |-> 1, p |-> 1, q |-> 1, b |-> FALSE]
Bool(b) == [tag |-> "bool", n |-> 0, d |-> 1, p |-> 1, q |-> 1, b |-> b]
Ratio(n, d, p, q) == [tag |-> "ratio", n |-> n, d |-> d, p |-> p, q |-> q, b |-> FALSE]
NullValue == [tag |-> "null", n |-> 0, d |-> 1, p |-> 1, q |-> 1, b |-> FALSE]
NoValue == [tag |-> "none", n |-> 0, d |-> 1, p |-> 1, q |-> 1, b |-> FALSE]

\* ------------------------------------------------------------------------
\* The AirQuality getter (plugin.ts 83-168)
\* ------------------------------------------------------------------------

HumidityBlock(aq, s) ==
  IF Has(s, "humidity")
  THEN IF s["humidity"] < 25 \/ s["humidity"] >= 70 THEN POOR
       ELSE IF s["humidity"] < 30 \/ s["humidity"] >= 60 THEN FAIR
       ELSE EXCELLENT
  ELSE aq

Co2BlockAssigns(aq, s) ==
  IF Has(s, "co2")
  THEN IF s["co2"] >= 1000 THEN POOR
       ELSE IF s["co2"] >= 800 THEN FAIR
       ELSE EXCELLENT
  ELSE aq

Co2BlockStrict(aq, s) ==
  IF Has(s, "co2")
  THEN IF s["co2"] > 1000 THEN Max(aq, POOR)
       ELSE IF s["co2"] >= 800 THEN Max(aq, FAIR)
       ELSE Max(aq, EXCELLENT)
  ELSE aq

Co2Block(aq, s) ==
  IF Has(s, "co2")
  THEN IF s["co2"] >= 1000 THEN Max(aq, POOR)
       ELSE IF s["co2"] >= 800 THEN Max(aq, FAIR)
       ELSE Max(aq, EXCELLENT)
  ELSE aq

MoldBlock(aq, s) ==
  IF Has(s, "mold")
  THEN IF s["mold"] >= 5 THEN Max(aq, POOR)
       ELSE IF s["mold"] >= 3 THEN Max(aq, FAIR)
       ELSE Max(aq, EXCELLENT)
  ELSE aq

Pm25Block(aq, s) ==
  IF Has(s, "pm25")
  THEN IF s["pm25"] >= 25 THEN Max(aq, POOR)
       ELSE IF s["pm25"] >= 10 THEN Max(aq, FAIR)
       ELSE Max(aq, EXCELLENT)
  ELSE aq

RadonBlock(aq, s) ==
  IF Has(s, "radonShortTermAvg")
  THEN IF s["radonShortTermAvg"] >= 150 THEN Max(aq, POOR)
       ELSE IF s["radonShortTermAvg"] >= 100 THEN Max(aq, FAIR)
       ELSE Max(aq, EXCELLENT)
  ELSE aq

VocBlock(aq, s) ==
  IF Has(s, "voc")
  THEN IF s["voc"] >= 2000 THEN Max(aq, POOR)
       ELSE IF s["voc"] >= 250 THEN Max(aq, FAIR)
       ELSE Max(aq, EXCELLENT)
  ELSE aq

\* let aq = UNKNOWN; then the six blocks in the source's order; return aq.
AirQualityOnGet(s) ==
  VocBlock(RadonBlock(Pm25Block(MoldBlock(Co2Block(HumidityBlock(UNKNOWN, s), s), s), s), s), s)

\* ------------------------------------------------------------------------
\* The StatusActive getters (plugin.ts 228-232, 243-247, 258-262, 281-285,
\* 302-306).  Date.now() / 1000 - time < 2 * 60 * 60 is a comparison of
\* reals; with time an integer number of seconds it is the integer
\* comparison nowMs - time * 1000 < 2 * 60 * 60 * 1000.
\* ------------------------------------------------------------------------

RecentInclusive(s, nowMs) ==
  Has(s, "time") /\ nowMs - s["time"] * 1000 <= ACTIVE_WINDOW_S * 1000

Recent(s, nowMs) ==
  Has(s, "time") /\ nowMs - s["time"] * 1000 < ACTIVE_WINDOW_S * 1000

AirQualityStatusActive(s, nowMs) == Recent(s, nowMs)

FieldStatusActive(f, s, nowMs) == Has(s, f) /\ Recent(s, nowMs)

\* ------------------------------------------------------------------------
\* The remaining getters
\* ------------------------------------------------------------------------

\* data.f ?? dflt
OrDefault(s, f, dflt) == IF Has(s, f) THEN s[f] ELSE dflt

StatusLowBatteryAtTen(s) ==
  IF ~Has(s, "battery") \/ s["battery"] >= 10
  THEN BATTERY_LEVEL_NORMAL ELSE BATTERY_LEVEL_LOW

StatusLowBattery(s) ==
  IF ~Has(s, "battery") \/ s["battery"] > 10
  THEN BATTERY_LEVEL_NORMAL ELSE BATTERY_LEVEL_LOW

CarbonDioxideDetectedFrom800(s) ==
  IF ~Has(s, "co2") \/ s["co2"] < 800
  THEN CO2_LEVELS_NORMAL ELSE CO2_LEVELS_ABNORMAL

CarbonDioxideDetected(s) ==
  IF ~Has(s, "co2") \/ s["co2"] < 1000
  THEN CO2_LEVELS_NORMAL ELSE CO2_LEVELS_ABNORMAL

\* voc * (78 / (22.41 * ((temp + 273) / 273) * (1013 / pressure))), as the
\* exact product (voc * 78 * 273 * 100 / (2241 * (temp + 273))) * (pressure / 1013).
VOCDensity(s) ==
  IF Has(s, "voc")
  THEN Ratio(s["voc"] * 78 * 273 * 100, 2241 * (OrDefault(s, "temp", 25) + 273),
             OrDefault(s, "pressure", 1013), 1013)
  ELSE Num(0)

Getters ==
  {"BatteryLevel", "StatusLowBattery", "AirQuality", "Mold", "PM2_5Density",
   "Radon", "VOCDensity", "AirQualityStatusActive", "CurrentTemperature",
   "TemperatureStatusActive", "CurrentRelativeHumidity", "HumidityStatusActive",
   "CarbonDioxideDetected", "CarbonDioxideLevel", "CarbonDioxideStatusActive",
   "AirPressure", "AirPressureStatusActive"}

\* What the getter g returns once its await of getLatestSamples() resolved,
\* from the cached snapshot s at clock nowMs.
GetterValue(g, s, nowMs) ==
  CASE g = "BatteryLevel" -> Num(OrDefault(s, "battery", 100))
    [] g = "StatusLowBattery" -> Num(StatusLowBattery(s))
    [] g = "AirQuality" -> Num(AirQualityOnGet(s))
    [] g = "Mold" -> Num(OrDefault(s, "mold", 0))
    [] g = "PM2_5Density" -> Num(OrDefault(s, "pm25", 0))
    [] g = "Radon" -> Num(OrDefault(s, "radonShortTermAvg", 0))
    [] g = "VOCDensity" -> VOCDensity(s)
    [] g = "AirQualityStatusActive" -> Bool(AirQualityStatusActive(s, nowMs))
    [] g = "CurrentTemperature" ->
         IF Has(s, "temp") THEN Num(s["temp"]) ELSE NullValue
    [] g = "TemperatureStatusActive" -> Bool(FieldStatusActive("temp", s, nowMs))
    [] g = "CurrentRelativeHumidity" -> Num(OrDefault(s, "humidity", 0))
    [] g = "HumidityStatusActive" -> Bool(FieldStatusActive("humidity", s, nowMs))
    [] g = "CarbonDioxideDetected" -> Num(CarbonDioxideDetected(s))
    [] g = "CarbonDioxideLevel" -> Num(OrDefault(s, "co2", 0))
    [] g = "CarbonDioxideStatusActive" -> Bool(FieldStatusActive("co2", s, nowMs))
    [] g = "AirPressure" -> Num(OrDefault(s, "pressure", 1012))
    [] g = "AirPressureStatusActive" -> Bool(FieldStatusActive("pressure", s, nowMs))

\* ------------------------------------------------------------------------
\* State
\* ------------------------------------------------------------------------

VARIABLES
  pc,                      \* per getter invocation: where it stands
  callsLeft,               \* getter invocations the host may still start
  mutexLocked,             \* this.mutex: held
  mutexQueue,              \* this.mutex: waiters, first come first served
  latestSamples,           \* this.latestSamples.data
  latestSamplesTimestamp,  \* this.latestSamplesTimestamp
  configSerial,            \* config.serialNumber as passed to the constructor
  configKeys,              \* of clientId and clientSecret, those the config has
  accessory,               \* the constructor: not yet run, completed, or aborted
  serialNumber,            \* this.airthingsConfig.serialNumber
  now,                     \* Date.now()
  inflight,                \* calls of airthingsApi.getLatestSamples not yet settled
  fetchCount,              \* calls of airthingsApi.getLatestSamples made so far
  fetchLog,                \* the fetches that resolved: snapshot and time, in order
  lastCheck,               \* the latest TTL check: who, when, the cache it saw, outcome
  lastReturn               \* the latest getter return: which getter, its value, the
                           \* clock and the number of resolved fetches at that time

vars ==
  <<pc, callsLeft, mutexLocked, mutexQueue, latestSamples, latestSamplesTimestamp,
    configSerial, configKeys, accessory, serialNumber, now, inflight, fetchCount, fetchLog, lastCheck,
    lastReturn>>

Callers == DOMAIN pc

\* The clock values of the model: around the start and around each TTL boundary.
Times ==
  {StartNow + k * TTL_MS + e : k \in 0..Horizon, e \in {0, 1}}

\* Snapshots the remote API returns in the general specification.
SampleA == [co2 |-> 1000, humidity |-> 50, temp |-> 21, time |-> StartNow \div 1000]
SampleB == [humidity |-> 24, battery |-> 8, time |-> (StartNow \div 1000) + 300]
FetchSamples == {EmptySample, SampleA, SampleB}

\* Getters the host invokes in the general specification.
CacheGetters == {"AirQuality", "CarbonDioxideLevel", "TemperatureStatusActive"}

ConfigSerials == {Null, DeviceSerial}

\* The two credentials of the config (lines 32-38).
CredentialKeys == {"clientId", "clientSecret"}

\* new AirthingsApi(clientId, clientSecret) (line 48): the client keeps the
\* credentials it is given, missing ones included, and contacts nothing.
NewAirthingsApi(keys) == [credentials |-> keys, thrown |-> FALSE]

\* AirthingsDevice.getDevice(serialNumber) (line 50): a static lookup that
\* answers with a descriptor for every serial number.
GetDevice(serial) ==
  [model |-> IF serial = DeviceSerial THEN "Wave Plus" ELSE "Unknown",
   thrown |-> FALSE]

ConstructorKeepsNull(cfg) == cfg

\* Lines 40-43 and 49: a missing serial number is replaced in the config
\* object, which is the object kept as airthingsConfig.
Constructor(cfg) == IF cfg = Null THEN Placeholder ELSE cfg

NoCheck == [caller |-> 0, at |-> 0, ts |-> 0, data |-> EmptySample, outcome |-> "none"]
NoReturn == [getter |-> "none", value |-> NoValue, at |-> 0, seen |-> 0]

Init ==
  /\ pc = [c \in 1..NumCallers |-> "idle"]
  /\ callsLeft = MaxCalls
  /\ mutexLocked = FALSE
  /\ mutexQueue = <<>>
  /\ latestSamples = EmptySample
  /\ latestSamplesTimestamp = 0
  /\ configSerial \in ConfigSerials
  /\ configKeys = CredentialKeys
  /\ accessory = "constructed"
  /\ serialNumber = Constructor(configSerial)
  /\ now = StartNow
  /\ inflight = {}
  /\ fetchCount = 0
  /\ fetchLog = <<>>
  /\ lastCheck = NoCheck
  /\ lastReturn = NoReturn

\* ------------------------------------------------------------------------
\* The mutex (async-mutex, used at plugin.ts 332)
\* ------------------------------------------------------------------------

\* runExclusive's release once the callback of caller c has settled; c goes on
\* at exitPc and the first waiter, if any, is handed the lock.
Release(c, exitPc) ==
  IF mutexQueue = <<>>
  THEN /\ mutexLocked' = FALSE
       /\ mutexQueue' = mutexQueue
       /\ pc' = [pc EXCEPT ![c] = exitPc]
  ELSE /\ mutexLocked' = TRUE
       /\ mutexQueue' = Tail(mutexQueue)
       /\ pc' = [pc EXCEPT ![c] = exitPc, ![Head(mutexQueue)] = "check"]

\* The callback of caller c has run its last statement: its promise settles,
\* and runExclusive, which awaits it, has not released the mutex yet.
Settle(c) ==
  /\ pc' = [pc EXCEPT ![c] = "settled"]
  /\ UNCHANGED <<mutexLocked, mutexQueue>>

\* ------------------------------------------------------------------------
\* Operations
\* ------------------------------------------------------------------------

InvokeNoLock(c) ==
  /\ pc[c] = "idle"
  /\ callsLeft > 0
  /\ callsLeft' = callsLeft - 1
  /\ mutexLocked' = TRUE
  /\ pc' = [pc EXCEPT ![c] = "check"]
  /\ UNCHANGED <<mutexQueue, latestSamples, latestSamplesTimestamp, configSerial, configKeys, accessory,
                 serialNumber, now, inflight, fetchCount, fetchLog, lastCheck,
                 lastReturn>>

\* The host invokes a getter: it calls getLatestSamples(), which asks for the
\* mutex (runExclusive) and either takes it or waits in line.  Every getter
\* starts with this same await, so which getter it is matters at its return.
Invoke(c) ==
  /\ pc[c] = "idle"
  /\ callsLeft > 0
  /\ callsLeft' = callsLeft - 1
  /\ IF mutexLocked
     THEN /\ mutexQueue' = Append(mutexQueue, c)
          /\ pc' = [pc EXCEPT ![c] = "queued"]
          /\ UNCHANGED mutexLocked
     ELSE /\ mutexLocked' = TRUE
          /\ pc' = [pc EXCEPT ![c] = "check"]
          /\ UNCHANGED mutexQueue
  /\ UNCHANGED <<latestSamples, latestSamplesTimestamp, configSerial, configKeys, accessory, serialNumber,
                 now, inflight, fetchCount, fetchLog, lastCheck, lastReturn>>

\* Date.now() - this.latestSamplesTimestamp > 300 * 1000
ExpiredLate(nowMs, ts) == nowMs - ts > 2 * TTL_MS

ExpiredInclusive(nowMs, ts) == nowMs - ts >= TTL_MS

Expired(nowMs, ts) == nowMs - ts > TTL_MS

CheckUnlocksBeforeFetch(c) ==
  /\ pc[c] = "check"
  /\ IF serialNumber = Null
     THEN /\ lastCheck' = [caller |-> c, at |-> now, ts |-> latestSamplesTimestamp,
                           data |-> latestSamples, outcome |-> "noserial"]
          /\ Settle(c)
          /\ UNCHANGED <<inflight, fetchCount>>
     ELSE IF Expired(now, latestSamplesTimestamp)
     THEN /\ lastCheck' = [caller |-> c, at |-> now, ts |-> latestSamplesTimestamp,
                           data |-> latestSamples, outcome |-> "refresh"]
          /\ inflight' = inflight \cup {[caller |-> c, serial |-> serialNumber]}
          /\ fetchCount' = fetchCount + 1
          /\ Release(c, "fetching")
     ELSE /\ lastCheck' = [caller |-> c, at |-> now, ts |-> latestSamplesTimestamp,
                           data |-> latestSamples, outcome |-> "fresh"]
          /\ Settle(c)
          /\ UNCHANGED <<inflight, fetchCount>>
  /\ UNCHANGED <<callsLeft, latestSamples, latestSamplesTimestamp, configSerial, configKeys, accessory,
                 serialNumber, now, fetchLog, lastReturn>>

\* The callback of runExclusive up to its await (lines 333-341): return at
\* once without a serial number; otherwise compare the age of the cache with
\* the TTL and either call the remote API or return.  A callback that
\* returns still holds the mutex.
Check(c) ==
  /\ pc[c] = "check"
  /\ IF serialNumber = Null
     THEN /\ lastCheck' = [caller |-> c, at |-> now, ts |-> latestSamplesTimestamp,
                           data |-> latestSamples, outcome |-> "noserial"]
          /\ Settle(c)
          /\ UNCHANGED <<inflight, fetchCount>>
     ELSE IF Expired(now, latestSamplesTimestamp)
     THEN /\ lastCheck' = [caller |-> c, at |-> now, ts |-> latestSamplesTimestamp,
                           data |-> latestSamples, outcome |-> "refresh"]
          /\ inflight' = inflight \cup {[caller |-> c, serial |-> serialNumber]}
          /\ fetchCount' = fetchCount + 1
          /\ pc' = [pc EXCEPT ![c] = "fetching"]
          /\ UNCHANGED <<mutexLocked, mutexQueue>>
     ELSE /\ lastCheck' = [caller |-> c, at |-> now, ts |-> latestSamplesTimestamp,
                           data |-> latestSamples, outcome |-> "fresh"]
          /\ Settle(c)
          /\ UNCHANGED <<inflight, fetchCount>>
  /\ UNCHANGED <<callsLeft, latestSamples, latestSamplesTimestamp, configSerial, configKeys, accessory,
                 serialNumber, now, fetchLog, lastReturn>>

FetchResolveNoStamp(c, s) ==
  /\ pc[c] = "fetching"
  /\ \E r \in inflight : r.caller = c
  /\ inflight' = {r \in inflight : r.caller # c}
  /\ latestSamples' = s
  /\ fetchLog' = Append(fetchLog, [data |-> s, at |-> now])
  /\ Settle(c)
  /\ UNCHANGED <<callsLeft, latestSamplesTimestamp, configSerial, configKeys, accessory,
                 serialNumber, now, fetchCount, lastCheck, lastReturn>>

FetchResolveMerges(c, s) ==
  /\ pc[c] = "fetching"
  /\ \E r \in inflight : r.caller = c
  /\ inflight' = {r \in inflight : r.caller # c}
  /\ latestSamples' = Overlay(latestSamples, s)
  /\ latestSamplesTimestamp' = now
  /\ fetchLog' = Append(fetchLog, [data |-> s, at |-> now])
  /\ Settle(c)
  /\ UNCHANGED <<callsLeft, configSerial, configKeys, accessory, serialNumber, now, fetchCount, lastCheck,
                 lastReturn>>

\* The remote API resolves with the snapshot s (lines 341-343): the cache is
\* replaced and the timestamp set to Date.now(); the callback ends, still
\* holding the mutex.
FetchResolve(c, s) ==
  /\ pc[c] = "fetching"
  /\ \E r \in inflight : r.caller = c
  /\ inflight' = {r \in inflight : r.caller # c}
  /\ latestSamples' = s
  /\ latestSamplesTimestamp' = now
  /\ fetchLog' = Append(fetchLog, [data |-> s, at |-> now])
  /\ Settle(c)
  /\ UNCHANGED <<callsLeft, configSerial, configKeys, accessory, serialNumber, now, fetchCount, lastCheck,
                 lastReturn>>

FetchRejectRetries(c) ==
  /\ pc[c] = "fetching"
  /\ \E r \in inflight : r.caller = c
  /\ fetchCount' = fetchCount + 1
  /\ UNCHANGED <<pc, callsLeft, mutexLocked, mutexQueue, latestSamples,
                 latestSamplesTimestamp, configSerial, configKeys, accessory, serialNumber, now,
                 inflight, fetchLog, lastCheck, lastReturn>>

FetchRejectStampsTime(c) ==
  /\ pc[c] = "fetching"
  /\ \E r \in inflight : r.caller = c
  /\ inflight' = {r \in inflight : r.caller # c}
  /\ latestSamplesTimestamp' = now
  /\ Settle(c)
  /\ UNCHANGED <<callsLeft, latestSamples, configSerial, configKeys, accessory, serialNumber, now,
                 fetchCount, fetchLog, lastCheck, lastReturn>>

FetchRejectKeepsLock(c) ==
  /\ pc[c] = "fetching"
  /\ \E r \in inflight : r.caller = c
  /\ inflight' = {r \in inflight : r.caller # c}
  /\ pc' = [pc EXCEPT ![c] = "derive"]
  /\ UNCHANGED <<callsLeft, mutexLocked, mutexQueue, latestSamples,
                 latestSamplesTimestamp, configSerial, configKeys, accessory, serialNumber, now, fetchCount,
                 fetchLog, lastCheck, lastReturn>>

FetchRejectClearsCache(c) ==
  /\ pc[c] = "fetching"
  /\ \E r \in inflight : r.caller = c
  /\ inflight' = {r \in inflight : r.caller # c}
  /\ latestSamples' = EmptySample
  /\ latestSamplesTimestamp' = now
  /\ Settle(c)
  /\ UNCHANGED <<callsLeft, configSerial, configKeys, accessory, serialNumber, now, fetchCount, fetchLog,
                 lastCheck, lastReturn>>

\* The remote API rejects (lines 345-349): the error is caught and logged
\* and nothing is assigned; the callback ends, still holding the mutex.
FetchReject(c) ==
  /\ pc[c] = "fetching"
  /\ \E r \in inflight : r.caller = c
  /\ inflight' = {r \in inflight : r.caller # c}
  /\ Settle(c)
  /\ UNCHANGED <<callsLeft, latestSamples, latestSamplesTimestamp, configSerial, configKeys, accessory,
                 serialNumber, now, fetchCount, fetchLog, lastCheck, lastReturn>>

\* runExclusive (line 332) has awaited the callback's promise and releases
\* the mutex, a microtask or more after the callback's last statement; the
\* first waiter is handed the lock and getLatestSamples() of c resolves.
Unlock(c) ==
  /\ pc[c] = "settled"
  /\ Release(c, "derive")
  /\ UNCHANGED <<callsLeft, latestSamples, latestSamplesTimestamp, configSerial,
                 configKeys, accessory, serialNumber, now, inflight, fetchCount,
                 fetchLog, lastCheck, lastReturn>>

GetterReturnStampsCache(c, g) ==
  /\ pc[c] = "derive"
  /\ lastReturn' = [getter |-> g, value |-> GetterValue(g, latestSamples, now),
                    at |-> now, seen |-> Len(fetchLog)]
  /\ latestSamplesTimestamp' = now
  /\ pc' = [pc EXCEPT ![c] = "idle"]
  /\ UNCHANGED <<callsLeft, mutexLocked, mutexQueue, latestSamples, configSerial,
                 configKeys, accessory, serialNumber, now, inflight, fetchCount, fetchLog, lastCheck>>

\* getLatestSamples() has resolved; the getter g computes its value from the
\* cached snapshot and returns it to the host.
GetterReturn(c, g) ==
  /\ pc[c] = "derive"
  /\ lastReturn' = [getter |-> g, value |-> GetterValue(g, latestSamples, now),
                    at |-> now, seen |-> Len(fetchLog)]
  /\ pc' = [pc EXCEPT ![c] = "idle"]
  /\ UNCHANGED <<callsLeft, mutexLocked, mutexQueue, latestSamples,
                 latestSamplesTimestamp, configSerial, configKeys, accessory, serialNumber, now, inflight,
                 fetchCount, fetchLog, lastCheck>>

\* Time passes.
Tick(t) ==
  /\ t > now
  /\ now' = t
  /\ UNCHANGED <<pc, callsLeft, mutexLocked, mutexQueue, latestSamples,
                 latestSamplesTimestamp, configSerial, configKeys, accessory, serialNumber, inflight,
                 fetchCount, fetchLog, lastCheck, lastReturn>>

Next ==
  \/ \E c \in Callers : Invoke(c)
  \/ \E c \in Callers : Check(c)
  \/ \E c \in Callers, s \in FetchSamples : FetchResolve(c, s)
  \/ \E c \in Callers : FetchReject(c)
  \/ \E c \in Callers : Unlock(c)
  \/ \E c \in Callers, g \in CacheGetters : GetterReturn(c, g)
  \/ \E t \in Times : Tick(t)

Spec == Init /\ [][Next]_vars

\* The specification for progress: the remote API returns SampleA or rejects
\* and the host reads the AirQuality characteristic.  The event loop runs
\* every continuation that is ready (the callback of a caller that was handed
\* the mutex, the rest of a getter whose await resolved), and every call of
\* the remote API settles.
FetchSettles(c) == FetchReject(c) \/ FetchResolve(c, SampleA)

FairNext ==
  \/ \E c \in Callers : Invoke(c)
  \/ \E c \in Callers : Check(c)
  \/ \E c \in Callers : FetchResolve(c, SampleA)
  \/ \E c \in Callers : FetchReject(c)
  \/ \E c \in Callers : Unlock(c)
  \/ \E c \in Callers : GetterReturn(c, "AirQuality")
  \/ \E t \in Times : Tick(t)

FairSpec ==
  /\ Init
  /\ [][FairNext]_vars
  /\ \A c \in 1..NumCallers :
       /\ WF_vars(Check(c))
       /\ WF_vars(Unlock(c))
       /\ WF_vars(FetchSettles(c))
       /\ WF_vars(GetterReturn(c, "AirQuality"))

\* ------------------------------------------------------------------------
\* The burst scenario: the cache holds a snapshot fetched 10 or 301 seconds
\* ago and the host starts BurstSize getter invocations.
\* ------------------------------------------------------------------------

BurstAges == {10 * 1000, 301 * 1000}

BurstInit ==
  /\ pc = [c \in 1..BurstSize |-> "idle"]
  /\ callsLeft = BurstSize
  /\ mutexLocked = FALSE
  /\ mutexQueue = <<>>
  /\ latestSamples = SampleA
  /\ \E age \in BurstAges : latestSamplesTimestamp = StartNow - age
  /\ configSerial = DeviceSerial
  /\ configKeys = CredentialKeys
  /\ accessory = "constructed"
  /\ serialNumber = Constructor(configSerial)
  /\ now = StartNow
  /\ inflight = {}
  /\ fetchCount = 1
  /\ fetchLog = <<[data |-> SampleA, at |-> latestSamplesTimestamp]>>
  /\ lastCheck = [caller |-> 1, at |-> latestSamplesTimestamp, ts |-> 0,
                  data |-> EmptySample, outcome |-> "refresh"]
  /\ lastReturn = [getter |-> "AirQuality", value |-> Num(AirQualityOnGet(SampleA)),
                   at |-> latestSamplesTimestamp, seen |-> 1]

\* During the burst the remote API returns SampleB, the host reads the
\* AirQuality characteristic, and the clock may reach or pass the TTL.
BurstTimes == {StartNow + e : e \in {0, TTL_MS, TTL_MS + 1}}

BurstNext ==
  \/ \E c \in Callers : Invoke(c)
  \/ \E c \in Callers : Check(c)
  \/ \E c \in Callers : FetchResolve(c, SampleB)
  \/ \E c \in Callers : FetchReject(c)
  \/ \E c \in Callers : Unlock(c)
  \/ \E c \in Callers : GetterReturn(c, "AirQuality")
  \/ \E t \in BurstTimes : Tick(t)

BurstSpec == BurstInit /\ [][BurstNext]_vars

\* ------------------------------------------------------------------------
\* Properties of the refresh cache
\* ------------------------------------------------------------------------

\* Callers inside the callback of runExclusive.
InCritical == {c \in Callers : pc[c] \in {"check", "fetching", "settled"}}

\* Fetches that rejected so far.
Failures == fetchCount - Len(fetchLog) - Cardinality(inflight)

AllReturned == callsLeft = 0 /\ \A c \in Callers : pc[c] = "idle"

\* C1: at most one call of the remote API is in flight at any time, at most
\* one caller is inside the check-fetch-update sequence, and while a caller
\* awaits its fetch the cache is still the one its TTL check saw and no other
\* caller has run a TTL check.
C1_OneRefreshAtATime ==
  /\ Cardinality(inflight) <= 1
  /\ Cardinality(InCritical) <= 1
  /\ \A c \in Callers :
       pc[c] = "fetching" =>
         /\ inflight = {[caller |-> c, serial |-> serialNumber]}
         /\ lastCheck.caller = c
         /\ lastCheck.data = latestSamples
         /\ lastCheck.ts = latestSamplesTimestamp

\* A fetch is in flight while another caller waits for the mutex.
C1_Witness ==
  /\ Cardinality(inflight) = 1
  /\ Len(mutexQueue) >= 1
  /\ \E c \in Callers : pc[c] = "fetching"

\* The latest TTL check started a fetch and no fetch has resolved since.
RejectedSinceCheck ==
  /\ lastCheck.outcome = "refresh"
  /\ fetchLog = <<>> \/ fetchLog[Len(fetchLog)].at < lastCheck.at

\* C2: when a caller's fetch rejects (it leaves the fetch without a resolved
\* snapshot being logged), its callback ends, and when the mutex is then
\* released its getLatestSamples() resolves; at both steps the cached
\* snapshot and timestamp are those its TTL check saw.
C2_RejectKeepsCache ==
  [][\A c \in Callers :
       /\ (pc[c] = "fetching" /\ pc'[c] # "fetching" /\ fetchLog' = fetchLog) =>
            /\ pc'[c] = "settled"
            /\ latestSamples' = lastCheck.data
            /\ latestSamplesTimestamp' = lastCheck.ts
            /\ latestSamples' = latestSamples
            /\ latestSamplesTimestamp' = latestSamplesTimestamp
       /\ (pc[c] = "settled" /\ pc'[c] # "settled" /\ RejectedSinceCheck) =>
            /\ pc'[c] = "derive"
            /\ lastCheck.caller = c
            /\ latestSamples' = lastCheck.data
            /\ latestSamplesTimestamp' = lastCheck.ts]_vars

\* A fetch rejected after an earlier one had filled the cache, and the
\* caller's getLatestSamples() has resolved.
C2_Witness ==
  /\ Failures >= 1
  /\ lastCheck.outcome = "refresh"
  /\ pc[lastCheck.caller] = "derive"
  /\ fetchLog # <<>>
  /\ lastCheck.ts = fetchLog[Len(fetchLog)].at
  /\ latestSamples = SampleA
  /\ latestSamplesTimestamp = lastCheck.ts

\* The age of the cache at the start of the burst.
BurstAge == StartNow - fetchLog[1].at

\* Calls of the remote API made during the burst.
BurstFetches == fetchCount - 1

\* C3 as stated: with the last fetch 10 seconds before a TTL check no fetch is
\* made, and with the last fetch 301 seconds ago the five calls invoke the
\* remote API exactly once in total (here even with the clock standing still).
C3_ExactlyOnceAsStated ==
  /\ (lastCheck.at - lastCheck.ts = 10 * 1000) => lastCheck.outcome # "refresh"
  /\ (BurstAge = 301 * 1000 /\ AllReturned /\ now = StartNow) => BurstFetches = 1

\* C3 amended: a TTL check 10 seconds after the last fetch makes no fetch, and
\* five calls in that window make none; with the last fetch 301 seconds ago
\* the calls never have two fetches in flight, make at least one, and make
\* exactly one when no fetch rejects and no TTL check comes more than
\* 300 seconds after the first fetch resolved.
C3_ExactlyOnceUnlessFailed ==
  /\ Cardinality(inflight) <= 1
  /\ (lastCheck.at - lastCheck.ts = 10 * 1000) => lastCheck.outcome # "refresh"
  /\ (BurstAge = 10 * 1000 /\ now - fetchLog[1].at <= TTL_MS) => BurstFetches = 0
  /\ (BurstAge = 301 * 1000 /\ AllReturned) => BurstFetches >= 1
  /\ (BurstAge = 301 * 1000 /\ AllReturned /\ Failures = 0
        /\ now - fetchLog[2].at <= TTL_MS) => BurstFetches = 1

\* All five calls returned, the first fetch resolved, the cache was 301
\* seconds old at the start and exactly one fetch was made.
C3_Witness ==
  /\ BurstAge = 301 * 1000
  /\ AllReturned
  /\ Cardinality(Callers) = BurstSize
  /\ Failures = 0
  /\ BurstFetches = 1
  /\ latestSamples = SampleB

\* C4 as stated: with a serial number configured a TTL check starts a refresh
\* exactly when at least 300 seconds have passed since the last resolved fetch.
C4_RefreshAtTTLAsStated ==
  (configSerial = DeviceSerial /\ lastCheck.outcome \in {"refresh", "fresh"}) =>
    (lastCheck.outcome = "refresh" <=> lastCheck.at - lastCheck.ts >= 300 * 1000)

\* C4 amended: a TTL check starts a refresh exactly when more than 300 seconds
\* (300000 ms) have passed since the last resolved fetch; at exactly 300
\* seconds it does not.
C4_RefreshAfterTTL ==
  /\ lastCheck.outcome \in {"refresh", "fresh"} =>
       (lastCheck.outcome = "refresh" <=> lastCheck.at - lastCheck.ts > 300 * 1000)
  /\ \A c \in Callers : pc[c] = "fetching" => lastCheck.outcome = "refresh"

\* A TTL check exactly 300 seconds after the last resolved fetch, which
\* started no refresh.
C4_Witness ==
  /\ lastCheck.at - lastCheck.ts = 300 * 1000
  /\ lastCheck.outcome = "fresh"
  /\ fetchLog # <<>>

\* C5: constructed without a serial number, no call of getLatestSamples()
\* invokes the remote API, and the cached snapshot and timestamp stay as
\* constructed.
C5_NoSerialNoFetch ==
  configSerial = Null =>
    /\ fetchCount = 0
    /\ inflight = {}
    /\ latestSamples = EmptySample
    /\ latestSamplesTimestamp = 0
    /\ lastCheck.outcome \in {"none", "noserial"}

\* C6: under FairSpec every getter invocation, whether it waits for the
\* mutex, runs its TTL check, awaits a fetch or has its snapshot, eventually
\* returns to the host, whatever fetches resolve or reject.
C6_EveryGetterReturns ==
  \A c \in 1..NumCallers : (pc[c] # "idle") ~> (pc[c] = "idle")

\* Every invocation has returned although a fetch rejected while another
\* caller was waiting for the mutex.
C6_Witness ==
  /\ AllReturned
  /\ Failures >= 1
  /\ lastReturn.getter # "none"
  /\ lastCheck.outcome = "refresh"
  /\ lastCheck.caller = 2
  /\ fetchCount >= 2

\* ------------------------------------------------------------------------
\* The getters on their own: the cache holds a fetched snapshot, one getter
\* invocation has its getLatestSamples() resolved, and the getter returns.
\* ------------------------------------------------------------------------

\* A reading that is absent, or one of the values vs.
Opt(vs) == {<<>>} \cup {<<v>> : v \in vs}

\* The snapshot with the fields of o that hold a reading.
FromOptions(o) == [f \in {g \in DOMAIN o : o[g] # <<>>} |-> o[f][1]]

\* The state after one resolved fetch of the snapshot s at StartNow, seen at
\* clock t by a getter whose await has resolved.
AfterFetch(s, t) ==
  /\ pc = [c \in {1} |-> "derive"]
  /\ callsLeft = 0
  /\ mutexLocked = FALSE
  /\ mutexQueue = <<>>
  /\ latestSamples = s
  /\ latestSamplesTimestamp = StartNow
  /\ configSerial = DeviceSerial
  /\ configKeys = CredentialKeys
  /\ accessory = "constructed"
  /\ serialNumber = Constructor(configSerial)
  /\ now = t
  /\ inflight = {}
  /\ fetchCount = 1
  /\ fetchLog = <<[data |-> s, at |-> StartNow]>>
  /\ lastCheck = [caller |-> 1, at |-> StartNow, ts |-> 0, data |-> EmptySample,
                  outcome |-> "refresh"]
  /\ lastReturn = NoReturn

\* The six factors of the air-quality rating.
Factors == {"humidity", "co2", "mold", "pm25", "radonShortTermAvg", "voc"}

\* Readings on both sides of every threshold.
FactorValues ==
  [humidity |-> {24, 25, 29, 30, 59, 60, 69, 70},
   co2 |-> {799, 800, 999, 1000},
   mold |-> {2, 3, 4, 5},
   pm25 |-> {9, 10, 24, 25},
   radonShortTermAvg |-> {99, 100, 149, 150},
   voc |-> {249, 250, 1999, 2000}]

ClassifySamples ==
  {FromOptions([humidity |-> h, co2 |-> c, mold |-> m, pm25 |-> p,
                radonShortTermAvg |-> r, voc |-> v]) :
     h \in Opt(FactorValues["humidity"]), c \in Opt(FactorValues["co2"]),
     m \in Opt(FactorValues["mold"]), p \in Opt(FactorValues["pm25"]),
     r \in Opt(FactorValues["radonShortTermAvg"]), v \in Opt(FactorValues["voc"])}

ClassifyInit == \E s \in ClassifySamples : AfterFetch(s, StartNow)

ClassifyNext == \E c \in Callers : GetterReturn(c, "AirQuality")

ClassifySpec == ClassifyInit /\ [][ClassifyNext]_vars

\* One reading for each level a factor can have (humidity: both POOR bands
\* and both FAIR bands).
LevelValues ==
  [humidity |-> {24, 29, 45, 60, 70},
   co2 |-> {799, 800, 1000},
   mold |-> {2, 3, 5},
   pm25 |-> {9, 10, 25},
   radonShortTermAvg |-> {99, 100, 150},
   voc |-> {249, 250, 2000}]

LevelSamples ==
  {FromOptions([humidity |-> h, co2 |-> c, mold |-> m, pm25 |-> p,
                radonShortTermAvg |-> r, voc |-> v]) :
     h \in Opt(LevelValues["humidity"]), c \in Opt(LevelValues["co2"]),
     m \in Opt(LevelValues["mold"]), p \in Opt(LevelValues["pm25"]),
     r \in Opt(LevelValues["radonShortTermAvg"]), v \in Opt(LevelValues["voc"])}

LevelInit == \E s \in LevelSamples : AfterFetch(s, StartNow)

LevelSpec == LevelInit /\ [][ClassifyNext]_vars

\* Snapshots with every combination of the readings the StatusActive getters
\* look at, and clocks before, inside, at the end of and past the two hours
\* that follow the reading's time.
ActiveSamples ==
  {FromOptions([temp |-> a, humidity |-> h, co2 |-> c, pressure |-> p, time |-> t]) :
     a \in Opt({21}), h \in Opt({45}), c \in Opt({600}), p \in Opt({1013}),
     t \in Opt({StartNow \div 1000})}

ActiveTimes ==
  {((StartNow \div 1000) + d) * 1000 + e :
     d \in {0 - 10, 0, 7199, 7200, 7201}, e \in {0, 1, 999}}

ActiveGetters ==
  {"AirQualityStatusActive", "TemperatureStatusActive", "HumidityStatusActive",
   "CarbonDioxideStatusActive", "AirPressureStatusActive"}

ActiveInit == \E s \in ActiveSamples, t \in ActiveTimes : AfterFetch(s, t)

ActiveNext == \E c \in Callers, g \in ActiveGetters : GetterReturn(c, g)

ActiveSpec == ActiveInit /\ [][ActiveNext]_vars

\* ------------------------------------------------------------------------
\* Properties of the getters
\* ------------------------------------------------------------------------

\* The thresholds as the rating is specified: POOR from, FAIR from.
PoorFrom == [co2 |-> 1000, mold |-> 5, pm25 |-> 25, radonShortTermAvg |-> 150, voc |-> 2000]
FairFrom == [co2 |-> 800, mold |-> 3, pm25 |-> 10, radonShortTermAvg |-> 100, voc |-> 250]

FactorLevel(f, v) ==
  IF f = "humidity"
  THEN IF v < 25 \/ v >= 70 THEN POOR
       ELSE IF v < 30 \/ v >= 60 THEN FAIR
       ELSE EXCELLENT
  ELSE IF v >= PoorFrom[f] THEN POOR
       ELSE IF v >= FairFrom[f] THEN FAIR
       ELSE EXCELLENT

\* EXCELLENT < FAIR < POOR, with UNKNOWN below them.
Severity(l) ==
  CASE l = UNKNOWN -> 0
    [] l = EXCELLENT -> 1
    [] l = FAIR -> 2
    [] l = POOR -> 3

Worse(a, b) == IF Severity(a) >= Severity(b) THEN a ELSE b

Present(s) == {f \in Factors : Has(s, f)}

\* The most severe of the levels of the factors present.
WorstLevel(s) ==
  CHOOSE l \in {FactorLevel(f, s[f]) : f \in Present(s)} :
    \A f \in Present(s) : Severity(l) >= Severity(FactorLevel(f, s[f]))

\* C7: the AirQuality getter returns the most severe per-factor level of the
\* factors present, and UNKNOWN exactly when none of the six is present.
C7_WorstOfPresentFactors ==
  lastReturn.getter = "AirQuality" =>
    /\ lastReturn.value.tag = "num"
    /\ IF Present(latestSamples) = {}
       THEN lastReturn.value.n = UNKNOWN
       ELSE lastReturn.value.n = WorstLevel(latestSamples)
    /\ (lastReturn.value.n = UNKNOWN <=> Present(latestSamples) = {})

\* The getter returned POOR for a snapshot whose co2 is exactly 1000 while
\* every other factor present is below POOR, one factor being absent.
C7_Witness ==
  /\ lastReturn.getter = "AirQuality"
  /\ lastReturn.value.n = POOR
  /\ Has(latestSamples, "co2") /\ latestSamples["co2"] = 1000
  /\ Has(latestSamples, "humidity") /\ latestSamples["humidity"] = 59
  /\ Has(latestSamples, "voc") /\ latestSamples["voc"] = 250
  /\ ~Has(latestSamples, "mold")
  /\ \A f \in Present(latestSamples) \ {"co2"} :
       FactorLevel(f, latestSamples[f]) # POOR

\* The snapshot s with the reading v for the factor f.
With(s, f, v) == Overlay(s, [g \in {f} |-> v])

\* The order of the source, and every order the six factors can be taken in.
SourceOrder == <<"humidity", "co2", "mold", "pm25", "radonShortTermAvg", "voc">>

FactorOrders ==
  {[i \in 1..Len(SourceOrder) |-> p[SourceOrder[i]]] : p \in Permutations(Factors)}

\* The running worst level after the factors order[i..] are evaluated in turn.
RECURSIVE WorstInOrder(_, _, _, _)
WorstInOrder(order, i, acc, s) ==
  IF i > Len(order) THEN acc
  ELSE WorstInOrder(order, i + 1,
                    IF Has(s, order[i])
                    THEN Worse(acc, FactorLevel(order[i], s[order[i]]))
                    ELSE acc,
                    s)

\* C8: giving one factor a reading of the same or a higher severity, or a
\* reading where it had none, never lowers what the AirQuality getter
\* returns; and the running worst level over the six factors taken in any
\* order is what the getter returns.
C8_MonotonicAnyOrder ==
  lastReturn.getter = "AirQuality" =>
    /\ \A f \in Factors : \A v \in LevelValues[f] :
         (~Has(latestSamples, f)
            \/ Severity(FactorLevel(f, v)) >= Severity(FactorLevel(f, latestSamples[f])))
         => Severity(AirQualityOnGet(With(latestSamples, f, v)))
              >= Severity(lastReturn.value.n)
    /\ \A order \in FactorOrders :
         WorstInOrder(order, 1, UNKNOWN, latestSamples) = lastReturn.value.n

\* The getter returned POOR for a snapshot whose only POOR factor is
\* humidity, the factor the source evaluates first, with later factors
\* present at lower levels.
C8_Witness ==
  /\ lastReturn.getter = "AirQuality"
  /\ lastReturn.value.n = POOR
  /\ Has(latestSamples, "humidity") /\ latestSamples["humidity"] = 24
  /\ Has(latestSamples, "co2") /\ latestSamples["co2"] = 799
  /\ Has(latestSamples, "voc") /\ latestSamples["voc"] = 250
  /\ Present(latestSamples) = {"humidity", "co2", "voc"}

\* The field a StatusActive getter requires besides the time.
ActiveField ==
  [TemperatureStatusActive |-> "temp", HumidityStatusActive |-> "humidity",
   CarbonDioxideStatusActive |-> "co2", AirPressureStatusActive |-> "pressure"]

\* now - time < 7200 seconds, with now = Date.now() / 1000.
Within7200(s, nowMs) == Has(s, "time") /\ nowMs < (s["time"] + 7200) * 1000

\* C9: the StatusActive getter of temperature, humidity, co2 and air pressure
\* returns true exactly when its own field and the time are present and the
\* time is less than 7200 seconds old; the air-quality one exactly when the
\* time is present and less than 7200 seconds old.
C9_StatusActive ==
  lastReturn.getter \in ActiveGetters =>
    /\ lastReturn.value.tag = "bool"
    /\ IF lastReturn.getter = "AirQualityStatusActive"
       THEN lastReturn.value.b = Within7200(latestSamples, lastReturn.at)
       ELSE lastReturn.value.b =
              (/\ Has(latestSamples, ActiveField[lastReturn.getter])
               /\ Within7200(latestSamples, lastReturn.at))

\* The temperature getter answered false exactly 7200 seconds after the
\* reading although temp and time are present.
C9_Witness ==
  /\ lastReturn.getter = "TemperatureStatusActive"
  /\ lastReturn.value = Bool(FALSE)
  /\ Has(latestSamples, "temp")
  /\ Has(latestSamples, "time")
  /\ lastReturn.at = (latestSamples["time"] + 7200) * 1000

\* The snapshot the cache held after k fetches had resolved.
SnapshotAt(k) == IF k = 0 THEN EmptySample ELSE fetchLog[k].data

\* C10: the cached snapshot is the initial empty one or exactly the snapshot
\* of the latest resolved fetch, never a mix of two; every value a getter
\* returned is computed from the snapshot cached at that time; and a field
\* absent from that snapshot is served as its default whatever earlier
\* snapshots held.
C10_SnapshotReplacedWhole ==
  /\ latestSamples = SnapshotAt(Len(fetchLog))
  /\ latestSamples \in {EmptySample} \cup FetchSamples
  /\ lastReturn.getter # "none" =>
       /\ lastReturn.seen <= Len(fetchLog)
       /\ lastReturn.value =
            GetterValue(lastReturn.getter, SnapshotAt(lastReturn.seen), lastReturn.at)
  /\ (lastReturn.getter = "CarbonDioxideLevel"
        /\ ~Has(SnapshotAt(lastReturn.seen), "co2")) => lastReturn.value = Num(0)

\* The co2 level was served as 0 from the second fetched snapshot, which has
\* no co2, after a first fetched snapshot that had it.
C10_Witness ==
  /\ lastReturn.getter = "CarbonDioxideLevel"
  /\ lastReturn.seen = 2
  /\ Len(fetchLog) >= 2
  /\ Has(fetchLog[1].data, "co2")
  /\ ~Has(fetchLog[2].data, "co2")
  /\ lastReturn.value = Num(0)

\* ------------------------------------------------------------------------
\* The getters with a default
\* ------------------------------------------------------------------------

\* Snapshots with every combination of the readings these getters look at,
\* the battery and co2 readings on both sides of their thresholds.
DefaultSamples ==
  {FromOptions([battery |-> b, co2 |-> c, mold |-> m, radonShortTermAvg |-> r,
                voc |-> v, humidity |-> h, pressure |-> p, temp |-> a]) :
     b \in Opt({0, 10, 11, 100}), c \in Opt({0, 999, 1000}), m \in Opt({4}),
     r \in Opt({120}), v \in Opt({300}), h \in Opt({45}), p \in Opt({990}),
     a \in Opt({0, 21})}

DefaultGetters ==
  {"BatteryLevel", "StatusLowBattery", "Mold", "Radon", "VOCDensity",
   "CurrentRelativeHumidity", "CarbonDioxideLevel", "CarbonDioxideDetected",
   "AirPressure", "CurrentTemperature"}

DefaultInit == \E s \in DefaultSamples : AfterFetch(s, StartNow)

DefaultNext == \E c \in Callers, g \in DefaultGetters : GetterReturn(c, g)

DefaultSpec == DefaultInit /\ [][DefaultNext]_vars

\* The field behind each getter and the default documented for it.
BackingField ==
  [BatteryLevel |-> "battery", StatusLowBattery |-> "battery", Mold |-> "mold",
   Radon |-> "radonShortTermAvg", VOCDensity |-> "voc",
   CurrentRelativeHumidity |-> "humidity", CarbonDioxideLevel |-> "co2",
   CarbonDioxideDetected |-> "co2", AirPressure |-> "pressure",
   CurrentTemperature |-> "temp"]

DocumentedDefault ==
  [BatteryLevel |-> 100, StatusLowBattery |-> BATTERY_LEVEL_NORMAL, Mold |-> 0,
   Radon |-> 0, VOCDensity |-> 0, CurrentRelativeHumidity |-> 0,
   CarbonDioxideLevel |-> 0, CarbonDioxideDetected |-> CO2_LEVELS_NORMAL,
   AirPressure |-> 1012]

FieldAbsent == ~Has(latestSamples, BackingField[lastReturn.getter])

\* The two flags when their field is present.
FlagsFollowThresholds ==
  /\ (lastReturn.getter = "StatusLowBattery" /\ ~FieldAbsent) =>
       /\ lastReturn.value.tag = "num"
       /\ (lastReturn.value.n = BATTERY_LEVEL_NORMAL <=> latestSamples["battery"] > 10)
       /\ (lastReturn.value.n = BATTERY_LEVEL_LOW <=> latestSamples["battery"] <= 10)
  /\ (lastReturn.getter = "CarbonDioxideDetected" /\ ~FieldAbsent) =>
       /\ lastReturn.value.tag = "num"
       /\ (lastReturn.value.n = CO2_LEVELS_NORMAL <=> latestSamples["co2"] < 1000)
       /\ (lastReturn.value.n = CO2_LEVELS_ABNORMAL <=> latestSamples["co2"] >= 1000)

\* C11 as stated: with its field absent every one of the ten getters, the
\* temperature getter included, returns a value that is not null, the nine
\* with a numeric default returning that default.
C11_DefaultsNeverNullAsStated ==
  /\ (lastReturn.getter \in DefaultGetters /\ FieldAbsent) =>
       /\ lastReturn.value.tag # "null"
       /\ lastReturn.getter \in DOMAIN DocumentedDefault =>
            lastReturn.value = Num(DocumentedDefault[lastReturn.getter])
  /\ FlagsFollowThresholds

\* C11 amended: with its field absent each of the nine getters with a numeric
\* default returns that default, never null, and the temperature getter
\* returns null; with the field present the low-battery flag is NORMAL exactly
\* when battery > 10 and the co2-detected flag exactly when co2 < 1000.
C11_DefaultsWhenAbsent ==
  /\ (lastReturn.getter \in DOMAIN DocumentedDefault /\ FieldAbsent) =>
       lastReturn.value = Num(DocumentedDefault[lastReturn.getter])
  /\ (lastReturn.getter = "CurrentTemperature" /\ FieldAbsent) =>
       lastReturn.value = NullValue
  /\ (lastReturn.getter = "CurrentTemperature" /\ ~FieldAbsent) =>
       lastReturn.value = Num(latestSamples["temp"])
  /\ FlagsFollowThresholds

\* The low-battery getter answered LOW for a battery of exactly 10 from a
\* snapshot without co2, mold or temp.
C11_Witness ==
  /\ lastReturn.getter = "StatusLowBattery"
  /\ lastReturn.value = Num(BATTERY_LEVEL_LOW)
  /\ Has(latestSamples, "battery") /\ latestSamples["battery"] = 10
  /\ ~Has(latestSamples, "co2")
  /\ ~Has(latestSamples, "mold")
  /\ ~Has(latestSamples, "temp")

\* ------------------------------------------------------------------------
\* The two getters that read co2
\* ------------------------------------------------------------------------

DetectGetters == {"CarbonDioxideDetected", "AirQuality"}

DetectNext == \E c \in Callers, g \in DetectGetters : GetterReturn(c, g)

DetectSpec == ClassifyInit /\ [][DetectNext]_vars

\* C18: on one snapshot, when the CarbonDioxideDetected getter returns
\* ABNORMAL the AirQuality getter returns POOR; put the other way round, when
\* the AirQuality getter returns less than POOR the CarbonDioxideDetected
\* getter returns NORMAL.
C18_AbnormalCo2IsPoor ==
  /\ (lastReturn.getter = "CarbonDioxideDetected"
        /\ lastReturn.value = Num(CO2_LEVELS_ABNORMAL)) =>
       AirQualityOnGet(latestSamples) = POOR
  /\ (lastReturn.getter = "AirQuality" /\ lastReturn.value # Num(POOR)) =>
       CarbonDioxideDetected(latestSamples) = CO2_LEVELS_NORMAL

\* The CarbonDioxideDetected getter returned ABNORMAL for co2 of exactly 1000
\* in a snapshot whose other factors are all present and below POOR.
C18_Witness ==
  /\ lastReturn.getter = "CarbonDioxideDetected"
  /\ lastReturn.value = Num(CO2_LEVELS_ABNORMAL)
  /\ Present(latestSamples) = Factors
  /\ latestSamples["co2"] = 1000
  /\ \A f \in Factors \ {"co2"} : FactorLevel(f, latestSamples[f]) # POOR

\* ------------------------------------------------------------------------
\* Construction from an incomplete config
\* ------------------------------------------------------------------------

\* The configs that miss clientId, clientSecret or serialNumber.
IncompleteConfigs ==
  {cfg \in [keys : SUBSET CredentialKeys, serial : ConfigSerials] :
     cfg.keys # CredentialKeys \/ cfg.serial = Null}

\* new AirthingsPlugin(log, config, api) is called with the config
\* (keys, serial); nothing of the constructor has run.
ConfigInit ==
  /\ pc = [c \in 1..NumCallers |-> "idle"]
  /\ callsLeft = MaxCalls
  /\ mutexLocked = FALSE
  /\ mutexQueue = <<>>
  /\ latestSamples = EmptySample
  /\ latestSamplesTimestamp = 0
  /\ \E cfg \in IncompleteConfigs :
       /\ configSerial = cfg.serial
       /\ configKeys = cfg.keys
  /\ serialNumber = configSerial
  /\ accessory = "new"
  /\ now = StartNow
  /\ inflight = {}
  /\ fetchCount = 0
  /\ fetchLog = <<>>
  /\ lastCheck = NoCheck
  /\ lastReturn = NoReturn

\* The constructor (lines 31-50): the missing values are logged, the
\* placeholder is written into the config (line 42), and then the client is
\* built (line 48) and the device looked up (line 50); a throw of either
\* aborts the construction, after line 42 has run.
Construct ==
  /\ accessory = "new"
  /\ serialNumber' = Constructor(configSerial)
  /\ accessory' =
       IF NewAirthingsApi(configKeys).thrown \/ GetDevice(Constructor(configSerial)).thrown
       THEN "aborted" ELSE "constructed"
  /\ UNCHANGED <<pc, callsLeft, mutexLocked, mutexQueue, latestSamples,
                 latestSamplesTimestamp, configSerial, configKeys, now, inflight,
                 fetchCount, fetchLog, lastCheck, lastReturn>>

\* The host reads the AirQuality characteristic of the accessory it was
\* given; the clock stands still.
ConfigNext ==
  \/ Construct
  \/ \E c \in Callers : accessory = "constructed" /\ Invoke(c)
  \/ \E c \in Callers : Check(c)
  \/ \E c \in Callers : FetchResolve(c, SampleA)
  \/ \E c \in Callers : FetchReject(c)
  \/ \E c \in Callers : Unlock(c)
  \/ \E c \in Callers : GetterReturn(c, "AirQuality")

\* The constructor is synchronous code and runs to its end or to a throw;
\* the event loop runs every continuation that is ready.  Nothing is assumed
\* about the remote API settling.
ConfigSpec ==
  /\ ConfigInit
  /\ [][ConfigNext]_vars
  /\ WF_vars(Construct)
  /\ \A c \in 1..NumCallers :
       /\ WF_vars(Check(c))
       /\ WF_vars(Unlock(c))
       /\ WF_vars(GetterReturn(c, "AirQuality"))

\* Every call of the remote API settles.
EveryFetchSettles == \A c \in 1..NumCallers : WF_vars(FetchSettles(c))

Returned(c) ==
  pc[c] = "idle" /\ lastReturn.getter # "none" /\ lastReturn.value # NoValue

CacheUnchanged ==
  /\ latestSamples' = latestSamples
  /\ latestSamplesTimestamp' = latestSamplesTimestamp

\* C13: the cached snapshot and the timestamp change only in the step in
\* which a caller's fetch resolves, and then to the resolved snapshot and the
\* current time; a getter's derivation, a TTL check that ends the call
\* without a fetch, a TTL check that starts a fetch, a fetch that rejects
\* and the release of the mutex leave both as they were.
C13_OnlyResolvedFetchWrites ==
  [][/\ ~CacheUnchanged =>
          /\ Len(fetchLog') = Len(fetchLog) + 1
          /\ \E c \in Callers : pc[c] = "fetching" /\ pc'[c] = "settled"
          /\ latestSamples' = fetchLog'[Len(fetchLog')].data
          /\ latestSamplesTimestamp' = now
     /\ \A c \in Callers :
          /\ (pc[c] = "derive" /\ pc'[c] = "idle") => CacheUnchanged
          /\ (pc[c] = "check" /\ pc'[c] # "check") => CacheUnchanged
          /\ (pc[c] = "fetching" /\ pc'[c] = "settled" /\ fetchLog' = fetchLog) =>
               CacheUnchanged
          /\ (pc[c] = "settled" /\ pc'[c] # "settled") => CacheUnchanged]_vars

\* After a rejected fetch, a resolved one and a later TTL check that found
\* the cache fresh, a getter has returned and the cache is still exactly what
\* the resolved fetch wrote, at a later clock time.
C13_Witness ==
  /\ Failures >= 1
  /\ Len(fetchLog) = 1
  /\ lastCheck.outcome = "fresh"
  /\ lastReturn.getter # "none"
  /\ lastReturn.seen = 1
  /\ latestSamples = fetchLog[1].data
  /\ latestSamples # EmptySample
  /\ latestSamplesTimestamp = fetchLog[1].at
  /\ now > latestSamplesTimestamp
  /\ AllReturned

\* Calls of getLatestSamples() whose TTL check has not run yet.
AwaitingCheck == {c \in Callers : pc[c] \in {"queued", "check"}}

CallsPastCheck == (MaxCalls - callsLeft) - Cardinality(AwaitingCheck)

\* C14: a call of getLatestSamples() calls the remote API at most once (the
\* calls of the API never outnumber the calls whose TTL check has run); a
\* rejected fetch ends the call without another call of the API; and the
\* API is called only in the step of a TTL check that finds the cache
\* expired.
C14_OneAttemptPerCall ==
  /\ [](fetchCount <= CallsPastCheck)
  /\ [][/\ \A c \in Callers :
             (pc[c] = "fetching" /\ pc'[c] # "fetching") =>
               /\ pc'[c] = "settled"
               /\ fetchCount' = fetchCount
               /\ \A r \in inflight' : r.caller # c
        /\ fetchCount' # fetchCount =>
             /\ fetchCount' = fetchCount + 1
             /\ Expired(now, latestSamplesTimestamp)
             /\ \E c \in Callers : pc[c] = "check" /\ pc'[c] = "fetching"]_vars

\* Two calls have each had their one fetch rejected and have resolved; the
\* remote API was called twice.
C14_Witness ==
  /\ Failures = 2
  /\ fetchCount = 2
  /\ callsLeft = MaxCalls - 2
  /\ inflight = {}
  /\ AwaitingCheck = {}
  /\ \E c \in Callers : pc[c] = "derive"

\* Calls of the burst whose TTL check has run.
BurstPastCheck == (BurstSize - callsLeft) - Cardinality(AwaitingCheck)

\* C15: a rejected fetch leaves the cache expired; in a burst on a cache 301
\* seconds old, as long as no fetch has resolved every TTL check starts a
\* fetch, so that each call whose check has run has called the remote API
\* once, never two at a time, and when all BurstSize calls have returned
\* with every fetch rejected the API was called BurstSize times.
C15_FailuresRefetchInTurn ==
  /\ [](Cardinality(inflight) <= 1)
  /\ []((BurstAge > TTL_MS /\ Len(fetchLog) = 1) =>
          /\ lastCheck.outcome = "refresh"
          /\ BurstFetches = BurstPastCheck
          /\ Expired(now, latestSamplesTimestamp)
          /\ AllReturned => (BurstFetches = BurstSize /\ Failures = BurstSize))
  /\ [][\A c \in Callers :
          /\ (pc[c] = "fetching" /\ pc'[c] = "settled" /\ fetchLog' = fetchLog) =>
               Expired(now', latestSamplesTimestamp')
          /\ (pc[c] = "settled" /\ pc'[c] = "derive" /\ RejectedSinceCheck) =>
               Expired(now', latestSamplesTimestamp')]_vars

\* All calls of the burst have returned, each after its own rejected fetch.
C15_Witness ==
  /\ BurstAge > TTL_MS
  /\ AllReturned
  /\ Len(fetchLog) = 1
  /\ Failures = BurstSize
  /\ BurstFetches = BurstSize
  /\ Cardinality(Callers) = BurstSize

\* C16 as stated: the timestamp is 0 exactly when no fetch has resolved,
\* which is exactly when the cached snapshot equals the initial empty one;
\* and the timestamp never decreases.
C16_ZeroIffEmptyAsStated ==
  /\ [](latestSamplesTimestamp = 0 <=> fetchLog = <<>>)
  /\ [](fetchLog = <<>> <=> latestSamples = EmptySample)
  /\ [][latestSamplesTimestamp' >= latestSamplesTimestamp]_vars

\* C16 amended: the timestamp is 0 exactly when no fetch has resolved; while
\* none has resolved the cached snapshot is the initial empty one (a
\* resolved fetch may itself bring an empty snapshot); and the timestamp
\* never decreases.
C16_ZeroIffNeverFetched ==
  /\ [](latestSamplesTimestamp = 0 <=> fetchLog = <<>>)
  /\ [](fetchLog = <<>> => latestSamples = EmptySample)
  /\ [](latestSamples # EmptySample => latestSamplesTimestamp > 0)
  /\ [][latestSamplesTimestamp' >= latestSamplesTimestamp]_vars

\* After a rejected fetch two fetches resolved, the second at a later time
\* than the first.
C16_Witness ==
  /\ Failures >= 1
  /\ Len(fetchLog) = 2
  /\ latestSamplesTimestamp = fetchLog[2].at
  /\ fetchLog[2].at > fetchLog[1].at
  /\ fetchLog[1].at > 0

\* C17: when the callback of a call of getLatestSamples() ends without its
\* fetch having rejected (its TTL check found the cache fresh, or its fetch
\* resolved), and when the mutex is then released, the cached snapshot was
\* fetched no more than 300 seconds before that call's TTL check; after a
\* resolved fetch it is the snapshot fetched just now.
C17_ServedWithinTTLUnlessFailed ==
  [][\A c \in Callers :
       /\ (pc[c] = "check" /\ pc'[c] = "settled") =>
            /\ lastCheck'.caller = c
            /\ lastCheck'.at - latestSamplesTimestamp' <= TTL_MS
            /\ fetchLog # <<>>
            /\ latestSamplesTimestamp' = fetchLog[Len(fetchLog)].at
       /\ (pc[c] = "fetching" /\ pc'[c] = "settled" /\ fetchLog' # fetchLog) =>
            /\ lastCheck'.caller = c
            /\ lastCheck'.at - latestSamplesTimestamp' <= TTL_MS
            /\ latestSamplesTimestamp' = now
       /\ (pc[c] = "settled" /\ pc'[c] = "derive" /\ ~RejectedSinceCheck) =>
            /\ lastCheck.caller = c
            /\ lastCheck.at - latestSamplesTimestamp' <= TTL_MS
            /\ fetchLog # <<>>
            /\ latestSamplesTimestamp' = fetchLog[Len(fetchLog)].at
            /\ latestSamples' = fetchLog[Len(fetchLog)].data]_vars

\* A call has ended at its TTL check on a cache exactly 300 seconds old,
\* after an earlier call's fetch had rejected.
C17_Witness ==
  /\ lastCheck.outcome = "fresh"
  /\ lastCheck.at - latestSamplesTimestamp = TTL_MS
  /\ pc[lastCheck.caller] = "derive"
  /\ Failures >= 1

====
